---- MODULE Spec2Model ----
(***************************************************************************)
(* A model of the threaded TCP request/response server of src/server.py:   *)
(* the listener (TCPServer.start_server), one handler thread for every     *)
(* accepted connection (TCPServer.handle_client), the dispatcher           *)
(* (TCPServer.process_request) and the four workload handlers, together    *)
(* with the clients and the byte streams that feed them.                   *)
(*                                                                         *)
(* Texts.  A Python str (and the bytes it encodes to) is a sequence of     *)
(* pieces [k, c, a, lo, hi]: the bytes lo..hi-1 of the text named by       *)
(* (k, c, a).  A payload a client sends is one such text, named by its     *)
(* kind k, the connection c that sends it and an integer argument a; a     *)
(* string literal of the program is a text with c = 0.  Concatenation is   *)
(* \o, a slice takes a prefix of the bytes.  Time is counted in ticks of   *)
(* a tenth of a second.                                                    *)
(***************************************************************************)
EXTENDS Integers, Sequences, FiniteSets, TLC

\* ---------------------------------------------------------------- bounds
MaxConns == 2      \* connections that may arrive
MaxSends == 2      \* payloads the clients send, over all connections
MaxClock == 1      \* ticks the clock may advance
MaxN == 20         \* largest Fibonacci index a client asks for
MaxIter == 2       \* largest iteration count a client asks for
SmallSize == 40    \* bytes of an ordinary encoded request
BigSize == 1500    \* bytes of a request longer than the read buffer

\* ------------------------------------------------------ program constants
BUFSIZE == 1024            \* client_socket.recv(1024)
BACKLOG == 5               \* server_socket.listen(5)
DefaultNumber == 1000      \* request.get('number', 1000)
DefaultIterations == 10000 \* request.get('iterations', 10000)
DefaultDelay == 1          \* request.get('delay', 0.1), in ticks of 0.1 s
DigestLen == 32            \* result[:32]
RecursionLimit == 1000     \* CPython's default limit on the depth of fibonacci

Conns == 1..MaxConns

\* ----------------------------------------------------------------- texts
Piece(k, c, a, lo, hi) == [k |-> k, c |-> c, a |-> a, lo |-> lo, hi |-> hi]

\* A string literal of n bytes.
Lit(s, n) == <<Piece(s, 0, 0, 0, n)>>

\* str(x) of a number x.
Str(x) == <<Piece("num", 0, x, 0, 3)>>

RECURSIVE TextLen(_)
TextLen(t) == IF t = <<>> THEN 0 ELSE (Head(t).hi - Head(t).lo) + TextLen(Tail(t))

\* The first n bytes of a text (t[:n]), and the text without them (t[n:]).
RECURSIVE Take(_, _)
Take(t, n) ==
    IF n <= 0 \/ t = <<>> THEN <<>>
    ELSE LET p == Head(t)
             w == p.hi - p.lo
         IN IF w <= n THEN <<p>> \o Take(Tail(t), n - w)
            ELSE <<[p EXCEPT !.hi = p.lo + n]>>

RECURSIVE Drop(_, _)
Drop(t, n) ==
    IF n <= 0 \/ t = <<>> THEN t
    ELSE LET p == Head(t)
             w == p.hi - p.lo
         IN IF w <= n THEN Drop(Tail(t), n - w)
            ELSE <<[p EXCEPT !.lo = p.lo + n]>> \o Tail(t)

\* ------------------------------------------------------------ JSON values
JStr(t) == [t |-> "str", n |-> 0, s |-> t]
JInt(n) == [t |-> "int", n |-> n, s |-> <<>>]
JNull == [t |-> "null", n |-> 0, s |-> <<>>]

\* dict.get(key, default)
Get(request, key, default) == IF key \in DOMAIN request THEN request[key] ELSE default

\* -------------------------------------------------------------- payloads
\* The kinds of payload a client may put on the wire.
ObjectKinds ==
    { "echo", "echo_nomsg", "echo_intmsg", "echo_nullmsg", "notype", "bogus",
      "inttype", "big", "big_utf8",
      "compute", "compute_nonum", "compute_str", "compute_null",
      "hash", "hash_long", "hash_noiter", "hash_nodata", "hash_intdata", "hash_striter",
      "slow", "slow_nodelay", "slow_neg", "slow_str" }
ScalarKinds == { "scalar", "array", "jstring", "null" }
JsonKinds == ObjectKinds \cup ScalarKinds
TextKinds == { "text" }
BadUtf8Kinds == { "badutf8" }
Kinds == JsonKinds \cup TextKinds \cup BadUtf8Kinds

\* Bytes of the encoded payload.
Size(k) ==
    IF k \in {"big", "big_utf8"} THEN BigSize
    ELSE IF k = "hash_long" THEN 2 * SmallSize
    ELSE SmallSize

\* The byte offsets of a payload that lie inside a multi-byte character:
\* the message of a big_utf8 request has a two-byte character in bytes
\* BUFSIZE - 1 and BUFSIZE.
MidChar(k) == IF k = "big_utf8" THEN {BUFSIZE} ELSE {}

\* The payload of kind k with argument a that connection c's client sends.
Payload(k, c, a) == <<Piece(k, c, a, 0, Size(k))>>

\* The message and the data a client of connection c puts in its requests.
Message(c) == <<Piece("message", c, 0, 0, 5)>>
BigMessage(c) == <<Piece("message", c, 1, 0, BigSize - 20)>>
BigUtf8Message(c) == <<Piece("message", c, 2, 0, BigSize - 21)>>
Data(c) == <<Piece("data", c, 0, 0, 6)>>
LongData(c) == <<Piece("longdata", c, 0, 0, SmallSize)>>

\* The object a JSON payload of an object kind decodes to.
Object(k, c, a) ==
    CASE k = "echo"          -> [type |-> JStr(Lit("echo", 4)), message |-> JStr(Message(c))]
      [] k = "echo_nomsg"    -> [type |-> JStr(Lit("echo", 4))]
      [] k = "echo_intmsg"   -> [type |-> JStr(Lit("echo", 4)), message |-> JInt(a)]
      [] k = "echo_nullmsg"  -> [type |-> JStr(Lit("echo", 4)), message |-> JNull]
      [] k = "notype"        -> [message |-> JStr(Message(c))]
      [] k = "bogus"         -> [type |-> JStr(Lit("delete", 6)), message |-> JStr(Message(c))]
      [] k = "inttype"       -> [type |-> JInt(a)]
      [] k = "big"           -> [type |-> JStr(Lit("echo", 4)), message |-> JStr(BigMessage(c))]
      [] k = "big_utf8"      -> [type |-> JStr(Lit("echo", 4)),
                                 message |-> JStr(BigUtf8Message(c))]
      [] k = "compute"       -> [type |-> JStr(Lit("compute", 7)), number |-> JInt(a)]
      [] k = "compute_nonum" -> [type |-> JStr(Lit("compute", 7))]
      [] k = "compute_str"   -> [type |-> JStr(Lit("compute", 7)), number |-> JStr(Str(a))]
      [] k = "compute_null"  -> [type |-> JStr(Lit("compute", 7)), number |-> JNull]
      [] k = "hash"          -> [type |-> JStr(Lit("hash", 4)), data |-> JStr(Data(c)),
                                 iterations |-> JInt(a)]
      [] k = "hash_long"     -> [type |-> JStr(Lit("hash", 4)), data |-> JStr(LongData(c)),
                                 iterations |-> JInt(a)]
      [] k = "hash_noiter"   -> [type |-> JStr(Lit("hash", 4)), data |-> JStr(Data(c))]
      [] k = "hash_nodata"   -> [type |-> JStr(Lit("hash", 4)), iterations |-> JInt(a)]
      [] k = "hash_intdata"  -> [type |-> JStr(Lit("hash", 4)), data |-> JInt(c),
                                 iterations |-> JInt(a)]
      [] k = "hash_striter"  -> [type |-> JStr(Lit("hash", 4)), data |-> JStr(Data(c)),
                                 iterations |-> JStr(Str(a))]
      [] k = "slow"          -> [type |-> JStr(Lit("slow", 4)), delay |-> JInt(a)]
      [] k = "slow_nodelay"  -> [type |-> JStr(Lit("slow", 4))]
      [] k = "slow_neg"      -> [type |-> JStr(Lit("slow", 4)), delay |-> JInt(0 - 1 - a)]
      [] k = "slow_str"      -> [type |-> JStr(Lit("slow", 4)), delay |-> JStr(Str(a))]

\* bytes.decode('utf-8'): fails on a chunk that holds bytes that are not
\* UTF-8, and on a chunk that begins or ends inside a multi-byte character.
Utf8Ok(chunk) ==
    \A i \in 1..Len(chunk) :
        /\ chunk[i].k \notin BadUtf8Kinds
        /\ chunk[i].lo \notin MidChar(chunk[i].k)
        /\ chunk[i].hi \notin MidChar(chunk[i].k)

\* A chunk is one JSON document exactly when it is the whole of one JSON
\* payload: a part of a document, and documents run together, are not.
IsWhole(p) == p.lo = 0 /\ p.hi = Size(p.k)
IsJson(data) == Len(data) = 1 /\ data[1].k \in JsonKinds /\ IsWhole(data[1])

\* json.loads(data): the decoded value, for a chunk that IsJson.
json_loads(data) ==
    LET p == data[1]
    IN IF p.k \in ObjectKinds
       THEN [isdict |-> TRUE, fields |-> Object(p.k, p.c, p.a)]
       ELSE [isdict |-> FALSE, fields |-> <<>>]

\* ------------------------------------------------------ workload handlers
\* What a call comes to: the value it returns, after `sleep` ticks of
\* suspension, or the exception it raises.
NoValue == [none |-> TRUE]
Return(v) == [raised |-> FALSE, exc |-> "", sleep |-> 0, value |-> v]
ReturnAfter(d, v) == [raised |-> FALSE, exc |-> "", sleep |-> d, value |-> v]
Raise(e) == [raised |-> TRUE, exc |-> e, sleep |-> 0, value |-> NoValue]

\* What an f-string puts for {v}: a str as it is, str(v) for a number, and
\* None for a JSON null.
Format(v) ==
    IF v.t = "str" THEN v.s
    ELSE IF v.t = "int" THEN Str(v.n)
    ELSE Lit("None", 4)

\* A handle_echo that reads the message with request.get('message'),
\* without the default.
handle_echoNoDefault(request, t) ==
    LET message == Get(request, "message", JNull)
    IN Return([type |-> "echo",
               response |-> Lit("Echo: ", 6) \o Format(message),
               timestamp |-> t])

\* handle_echo(request), with t the value of time.time()
handle_echo(request, t) ==
    LET message == Get(request, "message", JStr(<<>>))
    IN Return([type |-> "echo",
               response |-> Lit("Echo: ", 6) \o Format(message),
               timestamp |-> t])

\* A fibonacci whose base case returns 1 for every n <= 1.
RECURSIVE fibonacciFromOne(_)
fibonacciFromOne(n) ==
    IF n <= 1 THEN 1 ELSE fibonacciFromOne(n - 1) + fibonacciFromOne(n - 2)

\* fibonacci(n)
RECURSIVE fibonacci(_)
fibonacci(n) == IF n <= 1 THEN n ELSE fibonacci(n - 1) + fibonacci(n - 2)

\* handle_compute(request): `n <= 1` raises TypeError for a number that is
\* no number, and the chain fibonacci(n), ..., fibonacci(1) exceeds the
\* interpreter's recursion limit for the default number.
handle_compute(request, t) ==
    LET n == Get(request, "number", JInt(DefaultNumber))
    IN IF n.t # "int" THEN Raise("TypeError")
       ELSE IF n.n >= RecursionLimit THEN Raise("RecursionError")
       ELSE Return([type |-> "compute",
                    input |-> n.n,
                    result |-> fibonacci(n.n),
                    timestamp |-> t])

\* hashlib.sha256(result.encode()).hexdigest(): 64 hex characters that
\* depend on nothing but the text hashed.  A digest is named by the data
\* it started from (a whole text of one piece: the data of a request, or
\* the default) and the number of times the hash was applied.
DataKinds == { "data", "longdata", "default" }
DigestKinds == { "sha256 of " \o k : k \in DataKinds }

hexdigest(result) ==
    LET p == result[1]
    IN IF p.k \in DigestKinds
       THEN <<Piece(p.k, p.c, p.a + 1, 0, 64)>>
       ELSE <<Piece("sha256 of " \o p.k, p.c, 1, 0, 64)>>

\* for i in range(iterations): result = hexdigest(result).  The iterations
\* are run in two halves, the first to its end before the second begins.
RECURSIVE HashLoop(_, _)
HashLoop(result, iterations) ==
    IF iterations <= 0 THEN result
    ELSE IF iterations = 1 THEN hexdigest(result)
    ELSE LET half == HashLoop(result, iterations \div 2)
         IN IF Len(half) = 0 THEN half
            ELSE HashLoop(half, iterations - iterations \div 2)

\* A handle_hash that returns the digest whole, without result[:32].
handle_hashWhole(request, t) ==
    LET data == Get(request, "data", JStr(Lit("default", 7)))
        iterations == Get(request, "iterations", JInt(DefaultIterations))
    IN IF iterations.t # "int" THEN Raise("TypeError")
       ELSE IF data.t # "str"
            THEN Raise(IF iterations.n > 0 THEN "AttributeError" ELSE "TypeError")
       ELSE Return([type |-> "hash",
                    result |-> HashLoop(data.s, iterations.n),
                    iterations |-> iterations.n,
                    timestamp |-> t])

\* handle_hash(request): range() raises TypeError for iterations that are no
\* integer; a data that is no str has no encode() and cannot be sliced.
handle_hash(request, t) ==
    LET data == Get(request, "data", JStr(Lit("default", 7)))
        iterations == Get(request, "iterations", JInt(DefaultIterations))
    IN IF iterations.t # "int" THEN Raise("TypeError")
       ELSE IF data.t # "str"
            THEN Raise(IF iterations.n > 0 THEN "AttributeError" ELSE "TypeError")
       ELSE Return([type |-> "hash",
                    result |-> Take(HashLoop(data.s, iterations.n), DigestLen),
                    iterations |-> iterations.n,
                    timestamp |-> t])

\* handle_slow_operation(request): time.sleep raises TypeError for a delay
\* that is no number and ValueError for a negative one; t is the time after
\* the sleep.
handle_slow_operation(request, t) ==
    LET delay == Get(request, "delay", JInt(DefaultDelay))
    IN IF delay.t # "int" THEN Raise("TypeError")
       ELSE IF delay.n < 0 THEN Raise("ValueError")
       ELSE ReturnAfter(delay.n,
                [type |-> "slow",
                 message |-> Lit("Completed slow operation with ", 30)
                                 \o Str(delay.n) \o Lit("s delay", 7),
                 timestamp |-> t])

\* ------------------------------------------------------------- dispatcher
\* The except clause of process_request: the echo of a text that is no JSON.
MalformedEcho(data, t) ==
    Return([type |-> "echo",
            response |-> Lit("Echo: ", 6) \o data,
            timestamp |-> t])

\* An error response stamped like the others.
UnknownTypeStamped == Return([error |-> "Unknown request type", timestamp |-> 0])

\* The else branch of process_request.
UnknownType == Return([error |-> "Unknown request type"])

\* A dispatcher that reads the type with request.get('type'), without the
\* default: a request with no type field matches no branch.
DispatchNoDefault(decoded, t) ==
    IF ~decoded.isdict THEN Raise("AttributeError")
    ELSE LET request == decoded.fields
             request_type == Get(request, "type", JNull)
         IN IF request_type = JStr(Lit("echo", 4)) THEN handle_echo(request, t)
            ELSE IF request_type = JStr(Lit("compute", 7)) THEN handle_compute(request, t)
            ELSE IF request_type = JStr(Lit("hash", 4)) THEN handle_hash(request, t)
            ELSE IF request_type = JStr(Lit("slow", 4)) THEN handle_slow_operation(request, t)
            ELSE UnknownType

\* The try block of process_request once json.loads has returned: a decoded
\* value that is no dict has no get().
Dispatch(decoded, t) ==
    IF ~decoded.isdict THEN Raise("AttributeError")
    ELSE LET request == decoded.fields
             request_type == Get(request, "type", JStr(Lit("echo", 4)))
         IN IF request_type = JStr(Lit("echo", 4)) THEN handle_echo(request, t)
            ELSE IF request_type = JStr(Lit("compute", 7)) THEN handle_compute(request, t)
            ELSE IF request_type = JStr(Lit("hash", 4)) THEN handle_hash(request, t)
            ELSE IF request_type = JStr(Lit("slow", 4)) THEN handle_slow_operation(request, t)
            ELSE UnknownType

\* process_request(data): only json.JSONDecodeError is caught.
process_request(data, t) ==
    IF IsJson(data) THEN Dispatch(json_loads(data), t) ELSE MalformedEcho(data, t)

\* ------------------------------------------------------------------ state
VARIABLES
    lpc,            \* where start_server stands: bind, listen, accept, append, start, exited
    lresult,        \* running, or how start_server ended: raised, interrupted
    lerr,           \* the call of start_server that raised OSError, or none
    server_socket,  \* open or closed
    cur,            \* client_socket of start_server: the connection just accepted
    backlog,        \* connections established and not yet accepted
    clients,        \* self.clients
    conn,           \* per connection: none, queued, accepted, refused
    peer,           \* per connection, the client's end: open, fin, reset
    stream,         \* per connection: the bytes sent and not yet received
    nsent,          \* payloads the clients have sent
    sentLog,        \* per connection: the payloads its client sent, in order
    lateConn,       \* per connection: it arrived after a handler had left on end of stream
    pc,             \* per connection, where handle_client stands
    data,           \* per connection: handle_client's data
    response,       \* per connection: handle_client's response
    wake,           \* per connection: when time.sleep returns
    exitReason,     \* per connection: why the loop of handle_client was left
    sock,           \* per connection, client_socket: none, open, closed
    closeCount,     \* per connection: calls of client_socket.close()
    removeCount,    \* per connection: calls of self.clients.remove(client_socket)
    readLog,        \* per connection: the chunks recv returned, in order
    outbox,         \* per connection: the responses sent, in order
    now             \* time.time()

lvars == <<lpc, lresult, lerr, server_socket, cur, backlog>>
cvars == <<conn, peer, stream, nsent, sentLog, lateConn>>
hvars == <<pc, data, response, wake, exitReason, sock, closeCount, removeCount,
           readLog, outbox>>
vars == <<lpc, lresult, lerr, server_socket, cur, backlog, clients, conn, peer,
          stream, nsent, sentLog, lateConn, pc, data, response, wake, exitReason, sock, closeCount,
          removeCount, readLog, outbox, now>>

\* TCPServer.__init__, the socket() call of start_server, and no client yet.
Init ==
    /\ lpc = "bind"
    /\ lresult = "running"
    /\ lerr = "none"
    /\ server_socket = "open"
    /\ cur = 0
    /\ backlog = <<>>
    /\ clients = <<>>
    /\ conn = [c \in Conns |-> "none"]
    /\ peer = [c \in Conns |-> "open"]
    /\ stream = [c \in Conns |-> <<>>]
    /\ nsent = 0
    /\ sentLog = [c \in Conns |-> <<>>]
    /\ lateConn = [c \in Conns |-> FALSE]
    /\ pc = [c \in Conns |-> "idle"]
    /\ data = [c \in Conns |-> <<>>]
    /\ response = [c \in Conns |-> NoValue]
    /\ wake = [c \in Conns |-> 0]
    /\ exitReason = [c \in Conns |-> "none"]
    /\ sock = [c \in Conns |-> "none"]
    /\ closeCount = [c \in Conns |-> 0]
    /\ removeCount = [c \in Conns |-> 0]
    /\ readLog = [c \in Conns |-> <<>>]
    /\ outbox = [c \in Conns |-> <<>>]
    /\ now = 0

Range(s) == { s[i] : i \in 1..Len(s) }

\* list.remove(x): the list without the first x
RECURSIVE ListRemove(_, _)
ListRemove(s, x) ==
    IF s = <<>> THEN <<>>
    ELSE IF Head(s) = x THEN Tail(s)
    ELSE <<Head(s)>> \o ListRemove(Tail(s), x)

\* --------------------------------------------------------------- listener
\* The finally clause of start_server: server_socket.close().  The
\* connections still waiting in the backlog are refused.
Finally(result, where) ==
    /\ lpc' = "exited"
    /\ lresult' = result
    /\ lerr' = where
    /\ server_socket' = "closed"
    /\ backlog' = <<>>
    /\ conn' = [c \in Conns |-> IF conn[c] = "queued" THEN "refused" ELSE conn[c]]
    /\ UNCHANGED <<cur, clients, peer, stream, nsent, sentLog, lateConn, hvars, now>>

\* server_socket.bind((self.host, self.port))
Bind ==
    /\ lpc = "bind"
    /\ lpc' = "listen"
    /\ UNCHANGED <<lresult, lerr, server_socket, cur, backlog, clients, cvars, hvars, now>>

\* bind raises OSError (the address is in use): no except clause takes it.
BindFail == lpc = "bind" /\ Finally("raised", "bind")

\* server_socket.listen(5)
Listen ==
    /\ lpc = "listen"
    /\ lpc' = "accept"
    /\ UNCHANGED <<lresult, lerr, server_socket, cur, backlog, clients, cvars, hvars, now>>

\* A listener that swallows the failure of listen and goes on to accept.
ListenFailIgnored ==
    /\ lpc = "listen"
    /\ lerr' = "listen"
    /\ lpc' = "accept"
    /\ UNCHANGED <<lresult, server_socket, cur, backlog, clients, cvars, hvars, now>>

\* listen raises OSError
ListenFail == lpc = "listen" /\ Finally("raised", "listen")

\* client_socket, client_address = server_socket.accept(): it waits for a
\* connection in the backlog and for nothing else.
AcceptStep ==
    /\ lpc = "accept"
    /\ backlog # <<>>
    /\ cur' = Head(backlog)
    /\ backlog' = Tail(backlog)
    /\ conn' = [conn EXCEPT ![Head(backlog)] = "accepted"]
    /\ sock' = [sock EXCEPT ![Head(backlog)] = "open"]
    /\ lpc' = "append"
    /\ UNCHANGED <<lresult, lerr, server_socket, clients, peer, stream, nsent,
                   sentLog, lateConn, pc, data, response, wake, exitReason, closeCount, removeCount, readLog,
                   outbox, now>>

\* A listener that serves a connection itself before it accepts the next.
AcceptSerial == (\A c \in Conns : pc[c] \in {"idle", "done"}) /\ AcceptStep

Accept == AcceptStep

\* accept raises OSError: only KeyboardInterrupt is caught.
AcceptFail == lpc = "accept" /\ Finally("raised", "accept")

\* self.clients.append(client_socket)
AppendClient ==
    /\ lpc = "append"
    /\ clients' = Append(clients, cur)
    /\ lpc' = "start"
    /\ UNCHANGED <<lresult, lerr, server_socket, cur, backlog, cvars, hvars, now>>

\* client_thread.start(): handle_client begins and the loop goes back to accept
StartThread ==
    /\ lpc = "start"
    /\ pc' = [pc EXCEPT ![cur] = "recv"]
    /\ lpc' = "accept"
    /\ UNCHANGED <<lresult, lerr, server_socket, cur, backlog, clients, cvars, data,
                   response, wake, exitReason, sock, closeCount, removeCount,
                   readLog, outbox, now>>

\* KeyboardInterrupt anywhere in the try block of start_server
Interrupt ==
    /\ lpc \in {"bind", "listen", "accept", "append", "start"}
    /\ Finally("interrupted", "none")

\* ---------------------------------------------------------------- clients
\* What the clients send: <<kind, argument>>.
ClientPayloads ==
    { <<"echo", 0>>, <<"bogus", 0>>, <<"text", 0>>, <<"badutf8", 0>>,
      <<"scalar", 0>>, <<"slow", 1>>, <<"hash", MaxIter>>, <<"big", 0>> }

Listening == lpc \in {"accept", "append", "start"}

\* A client connects: connections are numbered in the order they arrive.
Connect(c) ==
    /\ conn[c] = "none"
    /\ \A d \in Conns : d < c => conn[d] # "none"
    /\ Listening
    /\ Len(backlog) < BACKLOG
    /\ conn' = [conn EXCEPT ![c] = "queued"]
    /\ backlog' = Append(backlog, c)
    /\ lateConn' = [lateConn EXCEPT ![c] =
                        \E d \in Conns : pc[d] = "done" /\ exitReason[d] = "eof"]
    /\ UNCHANGED <<lpc, lresult, lerr, server_socket, cur, clients, peer, stream,
                   nsent, sentLog, hvars, now>>

\* client_socket.send(...) of the client: bytes sent to a connection the
\* server has closed are never read, and are left out.
ClientSend(c, k, a) ==
    /\ conn[c] \in {"queued", "accepted"}
    /\ peer[c] = "open"
    /\ sock[c] # "closed"
    /\ nsent < MaxSends
    /\ stream' = [stream EXCEPT ![c] = @ \o Payload(k, c, a)]
    /\ nsent' = nsent + 1
    /\ sentLog' = [sentLog EXCEPT ![c] = Append(@, Payload(k, c, a))]
    /\ UNCHANGED <<lvars, clients, conn, peer, lateConn, hvars, now>>

\* The client closes its end.
ClientClose(c) ==
    /\ conn[c] \in {"queued", "accepted"}
    /\ peer[c] = "open"
    /\ sock[c] # "closed"
    /\ peer' = [peer EXCEPT ![c] = "fin"]
    /\ UNCHANGED <<lvars, clients, conn, stream, nsent, sentLog, lateConn, hvars, now>>

\* The client's end is reset.
ClientReset(c) ==
    /\ conn[c] \in {"queued", "accepted"}
    /\ peer[c] = "open"
    /\ sock[c] # "closed"
    /\ peer' = [peer EXCEPT ![c] = "reset"]
    /\ UNCHANGED <<lvars, clients, conn, stream, nsent, sentLog, lateConn, hvars, now>>

\* ---------------------------------------------------------------- handler
\* The byte counts recv(1024) may return on a stream: up to the end of any
\* payload that ends within the buffer, or the full buffer.
RECURSIVE Ends(_, _)
Ends(s, base) ==
    IF s = <<>> THEN {}
    ELSE LET e == base + (Head(s).hi - Head(s).lo)
         IN {e} \cup Ends(Tail(s), e)

RecvSizes(s) ==
    LET total == TextLen(s)
    IN { n \in Ends(s, 0) : n <= BUFSIZE } \cup { IF total < BUFSIZE THEN total ELSE BUFSIZE }

\* A handler that reads from the socket the listener accepted last, kept in
\* an attribute of the server, instead of the socket it was started with.
RecvDataLast(c) ==
    /\ pc[c] = "recv"
    /\ cur \in Conns
    /\ peer[cur] # "reset"
    /\ stream[cur] # <<>>
    /\ \E n \in RecvSizes(stream[cur]) :
         LET chunk == Take(stream[cur], n)
         IN /\ stream' = [stream EXCEPT ![cur] = Drop(@, n)]
            /\ readLog' = [readLog EXCEPT ![c] = Append(@, chunk)]
            /\ IF Utf8Ok(chunk)
               THEN /\ data' = [data EXCEPT ![c] = chunk]
                    /\ pc' = [pc EXCEPT ![c] = "process"]
                    /\ UNCHANGED exitReason
               ELSE /\ pc' = [pc EXCEPT ![c] = "close"]
                    /\ exitReason' = [exitReason EXCEPT ![c] = "error"]
                    /\ UNCHANGED data
    /\ UNCHANGED <<lvars, clients, conn, peer, nsent, sentLog, lateConn, response,
                   wake, sock, closeCount, removeCount, outbox, now>>

\* data = client_socket.recv(1024).decode('utf-8'), with bytes to read
RecvData(c) ==
    /\ pc[c] = "recv"
    /\ peer[c] # "reset"
    /\ stream[c] # <<>>
    /\ \E n \in RecvSizes(stream[c]) :
         LET chunk == Take(stream[c], n)
         IN /\ stream' = [stream EXCEPT ![c] = Drop(@, n)]
            /\ readLog' = [readLog EXCEPT ![c] = Append(@, chunk)]
            /\ IF Utf8Ok(chunk)
               THEN /\ data' = [data EXCEPT ![c] = chunk]
                    /\ pc' = [pc EXCEPT ![c] = "process"]
                    /\ UNCHANGED exitReason
               ELSE /\ pc' = [pc EXCEPT ![c] = "close"]
                    /\ exitReason' = [exitReason EXCEPT ![c] = "error"]
                    /\ UNCHANGED data
    /\ UNCHANGED <<lvars, clients, conn, peer, nsent, sentLog, lateConn, response,
                   wake, sock, closeCount, removeCount, outbox, now>>

\* A loop without `if not data: break`: the empty read is dispatched.
RecvEOFNoBreak(c) ==
    /\ pc[c] = "recv"
    /\ peer[c] = "fin"
    /\ stream[c] = <<>>
    /\ data' = [data EXCEPT ![c] = <<>>]
    /\ readLog' = [readLog EXCEPT ![c] = Append(@, <<>>)]
    /\ pc' = [pc EXCEPT ![c] = "process"]
    /\ UNCHANGED <<lvars, clients, cvars, response, wake, exitReason, sock,
                   closeCount, removeCount, outbox, now>>

\* recv returns b'': `if not data: break`
RecvEOF(c) ==
    /\ pc[c] = "recv"
    /\ peer[c] = "fin"
    /\ stream[c] = <<>>
    /\ pc' = [pc EXCEPT ![c] = "close"]
    /\ exitReason' = [exitReason EXCEPT ![c] = "eof"]
    /\ UNCHANGED <<lvars, clients, cvars, data, response, wake, sock, closeCount,
                   removeCount, readLog, outbox, now>>

\* A handler whose cleanup follows the loop instead of standing in a
\* finally clause: the exception leaves handle_client past it.
RecvResetNoFinally(c) ==
    /\ pc[c] = "recv"
    /\ peer[c] = "reset"
    /\ pc' = [pc EXCEPT ![c] = "done"]
    /\ exitReason' = [exitReason EXCEPT ![c] = "reset"]
    /\ UNCHANGED <<lvars, clients, cvars, data, response, wake, sock, closeCount,
                   removeCount, readLog, outbox, now>>

\* recv raises ConnectionResetError
RecvReset(c) ==
    /\ pc[c] = "recv"
    /\ peer[c] = "reset"
    /\ pc' = [pc EXCEPT ![c] = "close"]
    /\ exitReason' = [exitReason EXCEPT ![c] = "reset"]
    /\ UNCHANGED <<lvars, clients, cvars, data, response, wake, sock, closeCount,
                   removeCount, readLog, outbox, now>>

\* response = self.process_request(data), up to its return, its raise, or
\* the time.sleep of handle_slow_operation; d is the handler whose `data`
\* is read, which is c itself: data is a local of handle_client.
ProcessWith(c, d) ==
    /\ pc[c] = "process"
    /\ LET o == process_request(data[d], now)
       IN IF o.raised
          THEN /\ pc' = [pc EXCEPT ![c] = "close"]
               /\ exitReason' = [exitReason EXCEPT ![c] = "error"]
               /\ UNCHANGED <<response, wake>>
          ELSE IF o.sleep > 0
          THEN /\ pc' = [pc EXCEPT ![c] = "sleep"]
               /\ wake' = [wake EXCEPT ![c] = now + o.sleep]
               /\ UNCHANGED <<response, exitReason>>
          ELSE /\ pc' = [pc EXCEPT ![c] = "send"]
               /\ response' = [response EXCEPT ![c] = o.value]
               /\ UNCHANGED <<wake, exitReason>>
    /\ UNCHANGED <<lvars, clients, cvars, data, sock, closeCount, removeCount,
                   readLog, outbox, now>>

\* A handler that holds a lock shared by all handlers around the body of
\* its loop: it goes on to process_request only while no other handler
\* stands in its read or in its sleep.
ProcessLocked(c) ==
    /\ \A d \in Conns \ {c} : pc[d] \notin {"recv", "sleep"}
    /\ ProcessWith(c, c)

\* A handler that keeps the chunk in an attribute of the server, which the
\* handlers of all connections share.
ProcessShared(c) == \E d \in Conns : data[d] # <<>> /\ ProcessWith(c, d)

Process(c) == ProcessWith(c, c)

\* A sleep that may return before the delay has elapsed.
WakeEarly(c) ==
    /\ pc[c] = "sleep"
    /\ response' = [response EXCEPT ![c] = process_request(data[c], now).value]
    /\ pc' = [pc EXCEPT ![c] = "send"]
    /\ UNCHANGED <<lvars, clients, cvars, data, wake, exitReason, sock, closeCount,
                   removeCount, readLog, outbox, now>>

\* time.sleep(delay) returns and handle_slow_operation builds its response
Wake(c) ==
    /\ pc[c] = "sleep"
    /\ now >= wake[c]
    /\ response' = [response EXCEPT ![c] = process_request(data[c], now).value]
    /\ pc' = [pc EXCEPT ![c] = "send"]
    /\ UNCHANGED <<lvars, clients, cvars, data, wake, exitReason, sock, closeCount,
                   removeCount, readLog, outbox, now>>

\* A handler whose responses reach the client last written first.
SendOkFront(c) ==
    /\ pc[c] = "send"
    /\ peer[c] # "reset"
    /\ outbox' = [outbox EXCEPT ![c] = <<response[c]>> \o @]
    /\ pc' = [pc EXCEPT ![c] = "recv"]
    /\ UNCHANGED <<lvars, clients, cvars, data, response, wake, exitReason, sock,
                   closeCount, removeCount, readLog, now>>

\* client_socket.send(response.encode('utf-8'))
SendOk(c) ==
    /\ pc[c] = "send"
    /\ peer[c] # "reset"
    /\ outbox' = [outbox EXCEPT ![c] = Append(@, response[c])]
    /\ pc' = [pc EXCEPT ![c] = "recv"]
    /\ UNCHANGED <<lvars, clients, cvars, data, response, wake, exitReason, sock,
                   closeCount, removeCount, readLog, now>>

\* send raises ConnectionResetError
SendFail(c) ==
    /\ pc[c] = "send"
    /\ peer[c] = "reset"
    /\ pc' = [pc EXCEPT ![c] = "close"]
    /\ exitReason' = [exitReason EXCEPT ![c] = "reset"]
    /\ UNCHANGED <<lvars, clients, cvars, data, response, wake, sock, closeCount,
                   removeCount, readLog, outbox, now>>

\* A handler that closes its socket on the way and returns to its read.
CloseThenRead(c) ==
    /\ pc[c] = "close"
    /\ sock' = [sock EXCEPT ![c] = "closed"]
    /\ closeCount' = [closeCount EXCEPT ![c] = @ + 1]
    /\ pc' = [pc EXCEPT ![c] = "recv"]
    /\ UNCHANGED <<lvars, clients, cvars, data, response, wake, exitReason,
                   removeCount, readLog, outbox, now>>

\* A cleanup that closes every socket of the registry.
CloseEvery(c) ==
    /\ pc[c] = "close"
    /\ sock' = [d \in Conns |-> IF d = c \/ d \in Range(clients) THEN "closed" ELSE sock[d]]
    /\ closeCount' = [closeCount EXCEPT ![c] = @ + 1]
    /\ pc' = [pc EXCEPT ![c] = "check"]
    /\ UNCHANGED <<lvars, clients, cvars, data, response, wake, exitReason,
                   removeCount, readLog, outbox, now>>

\* finally: client_socket.close()
Close(c) ==
    /\ pc[c] = "close"
    /\ sock' = [sock EXCEPT ![c] = "closed"]
    /\ closeCount' = [closeCount EXCEPT ![c] = @ + 1]
    /\ pc' = [pc EXCEPT ![c] = "check"]
    /\ UNCHANGED <<lvars, clients, cvars, data, response, wake, exitReason,
                   removeCount, readLog, outbox, now>>

\* if client_socket in self.clients:
CheckClient(c) ==
    /\ pc[c] = "check"
    /\ pc' = [pc EXCEPT ![c] = IF c \in Range(clients) THEN "remove" ELSE "done"]
    /\ UNCHANGED <<lvars, clients, cvars, data, response, wake, exitReason, sock,
                   closeCount, removeCount, readLog, outbox, now>>

\* A cleanup that takes the last entry off the list (self.clients.pop()),
\* whichever connection it is.
RemoveClientPop(c) ==
    /\ pc[c] = "remove"
    /\ clients' = SubSeq(clients, 1, Len(clients) - 1)
    /\ removeCount' = [removeCount EXCEPT ![c] = @ + 1]
    /\ pc' = [pc EXCEPT ![c] = "done"]
    /\ UNCHANGED <<lvars, cvars, data, response, wake, exitReason, sock, closeCount,
                   readLog, outbox, now>>

\* self.clients.remove(client_socket)
RemoveClient(c) ==
    /\ pc[c] = "remove"
    /\ clients' = ListRemove(clients, c)
    /\ removeCount' = [removeCount EXCEPT ![c] = @ + 1]
    /\ pc' = [pc EXCEPT ![c] = "done"]
    /\ UNCHANGED <<lvars, cvars, data, response, wake, exitReason, sock, closeCount,
                   readLog, outbox, now>>

\* ------------------------------------------------------------------- time
Tick ==
    /\ now < MaxClock
    /\ now' = now + 1
    /\ UNCHANGED <<lvars, clients, cvars, hvars>>

\* ---------------------------------------------------------- specification
Next ==
    \/ Bind \/ BindFail \/ Listen \/ ListenFail
    \/ Accept \/ AcceptFail \/ AppendClient \/ StartThread \/ Interrupt
    \/ \E c \in Conns : Connect(c)
    \/ \E c \in Conns : \E p \in ClientPayloads : ClientSend(c, p[1], p[2])
    \/ \E c \in Conns : ClientClose(c)
    \/ \E c \in Conns : ClientReset(c)
    \/ \E c \in Conns : RecvData(c)
    \/ \E c \in Conns : RecvEOF(c)
    \/ \E c \in Conns : RecvReset(c)
    \/ \E c \in Conns : Process(c)
    \/ \E c \in Conns : Wake(c)
    \/ \E c \in Conns : SendOk(c)
    \/ \E c \in Conns : SendFail(c)
    \/ \E c \in Conns : Close(c)
    \/ \E c \in Conns : CheckClient(c)
    \/ \E c \in Conns : RemoveClient(c)
    \/ Tick

Spec == Init /\ [][Next]_vars

\* ------------------------------------------- the dispatcher on every input
\* The arguments a payload of kind k is sent with.
ReqArgs(k) ==
    IF k \in {"compute", "compute_str"} THEN 0..MaxN
    ELSE IF k \in {"hash", "hash_long", "hash_nodata", "hash_intdata", "hash_striter"}
         THEN 0..MaxIter
    ELSE IF k \in {"slow", "slow_neg", "slow_str"} THEN 0..MaxClock
    ELSE {0}

\* Connection 1 has been accepted and its handler started, and its client
\* has sent one payload of any kind.
ReqInit ==
    \E k \in Kinds : \E a \in ReqArgs(k) :
        /\ lpc = "accept"
        /\ lresult = "running"
        /\ lerr = "none"
        /\ server_socket = "open"
        /\ cur = 1
        /\ backlog = <<>>
        /\ clients = <<1>>
        /\ conn = [c \in Conns |-> IF c = 1 THEN "accepted" ELSE "none"]
        /\ peer = [c \in Conns |-> "open"]
        /\ stream = [c \in Conns |-> IF c = 1 THEN Payload(k, 1, a) ELSE <<>>]
        /\ nsent = 1
        /\ sentLog = [c \in Conns |-> IF c = 1 THEN <<Payload(k, 1, a)>> ELSE <<>>]
        /\ lateConn = [c \in Conns |-> FALSE]
        /\ pc = [c \in Conns |-> IF c = 1 THEN "recv" ELSE "idle"]
        /\ data = [c \in Conns |-> <<>>]
        /\ response = [c \in Conns |-> NoValue]
        /\ wake = [c \in Conns |-> 0]
        /\ exitReason = [c \in Conns |-> "none"]
        /\ sock = [c \in Conns |-> IF c = 1 THEN "open" ELSE "none"]
        /\ closeCount = [c \in Conns |-> 0]
        /\ removeCount = [c \in Conns |-> 0]
        /\ readLog = [c \in Conns |-> <<>>]
        /\ outbox = [c \in Conns |-> <<>>]
        /\ now = 0

ReqNext ==
    \/ \E c \in Conns : RecvData(c)
    \/ \E c \in Conns : Process(c)
    \/ \E c \in Conns : Wake(c)
    \/ \E c \in Conns : SendOk(c)
    \/ \E c \in Conns : Close(c)
    \/ \E c \in Conns : CheckClient(c)
    \/ \E c \in Conns : RemoveClient(c)
    \/ Tick

SpecReq == ReqInit /\ [][ReqNext]_vars

\* ------------------------------------------------ the server as a program
\* server.start_server() is the last statement of the main thread: when it
\* returns or raises, the interpreter exits.  The handler threads are daemon
\* threads, so the exit does not wait for them: each one stops wherever it
\* stands, and the descriptors of the process are closed with it.
ProcessExit ==
    /\ lpc = "exited"
    /\ lpc' = "ended"
    /\ pc' = [c \in Conns |-> IF pc[c] \in {"idle", "done"} THEN pc[c] ELSE "killed"]
    /\ sock' = [c \in Conns |-> IF sock[c] = "open" THEN "closed" ELSE sock[c]]
    /\ UNCHANGED <<lresult, lerr, server_socket, cur, backlog, clients, cvars, data,
                   response, wake, exitReason, closeCount, removeCount, readLog,
                   outbox, now>>

\* The requests of the clients of the server run as a program.
MainPayloads == { <<"echo", 0>>, <<"slow", 1>> }

MainNext ==
    \/ Bind \/ BindFail \/ Listen \/ ListenFail
    \/ Accept \/ AcceptFail \/ AppendClient \/ StartThread \/ Interrupt
    \/ ProcessExit
    \/ \E c \in Conns : Connect(c)
    \/ \E c \in Conns : \E p \in MainPayloads : ClientSend(c, p[1], p[2])
    \/ \E c \in Conns : ClientClose(c)
    \/ \E c \in Conns : ClientReset(c)
    \/ \E c \in Conns : RecvData(c)
    \/ \E c \in Conns : RecvEOF(c)
    \/ \E c \in Conns : RecvReset(c)
    \/ \E c \in Conns : Process(c)
    \/ \E c \in Conns : Wake(c)
    \/ \E c \in Conns : SendOk(c)
    \/ \E c \in Conns : SendFail(c)
    \/ \E c \in Conns : Close(c)
    \/ \E c \in Conns : CheckClient(c)
    \/ \E c \in Conns : RemoveClient(c)
    \/ Tick

SpecMain == Init /\ [][MainNext]_vars

\* ------------------------------------------- the server, fairly scheduled
\* The requests of the clients of the fairly scheduled server.
LivePayloads == { <<"echo", 0>>, <<"slow", 1>> }

LiveNext ==
    \/ Bind \/ BindFail \/ Listen \/ ListenFail
    \/ Accept \/ AcceptFail \/ AppendClient \/ StartThread \/ Interrupt
    \/ \E c \in Conns : Connect(c)
    \/ \E c \in Conns : \E p \in LivePayloads : ClientSend(c, p[1], p[2])
    \/ \E c \in Conns : ClientClose(c)
    \/ \E c \in Conns : ClientReset(c)
    \/ \E c \in Conns : RecvData(c)
    \/ \E c \in Conns : RecvEOF(c)
    \/ \E c \in Conns : RecvReset(c)
    \/ \E c \in Conns : Process(c)
    \/ \E c \in Conns : Wake(c)
    \/ \E c \in Conns : SendOk(c)
    \/ \E c \in Conns : SendFail(c)
    \/ \E c \in Conns : Close(c)
    \/ \E c \in Conns : CheckClient(c)
    \/ \E c \in Conns : RemoveClient(c)
    \/ Tick

\* Every handler thread that can take its next step (a call that returns,
\* a sleep whose delay has elapsed, a send) is scheduled in the end, and the
\* clock goes on.  Nothing is assumed of the clients or of the listener.
Fairness ==
    /\ WF_vars(Tick)
    /\ \A c \in Conns :
          /\ WF_vars(Process(c))
          /\ WF_vars(Wake(c))
          /\ WF_vars(SendOk(c))
          /\ WF_vars(SendFail(c))

SpecLive == Init /\ [][LiveNext]_vars /\ Fairness

\* ------------------------------------------------------------- vocabulary
Last(s) == s[Len(s)]

RECURSIVE Flatten(_)
Flatten(ss) == IF ss = <<>> THEN <<>> ELSE Head(ss) \o Flatten(Tail(ss))

\* A text with the pieces that continue one another joined again.
RECURSIVE Joined(_)
Joined(t) ==
    IF Len(t) <= 1 THEN t
    ELSE LET p == t[1]
             q == t[2]
         IN IF p.k = q.k /\ p.c = q.c /\ p.a = q.a /\ p.hi = q.lo
            THEN Joined(<<[p EXCEPT !.hi = q.hi]>> \o Tail(Tail(t)))
            ELSE <<p>> \o Joined(Tail(t))

\* The connections whose bytes a text holds (0: a literal of the program).
Tags(t) == { t[i].c : i \in 1..Len(t) }

\* The texts a response carries.
ResponseText(r) ==
    (IF "response" \in DOMAIN r THEN r.response ELSE <<>>)
    \o (IF "message" \in DOMAIN r THEN r.message ELSE <<>>)
    \o (IF "type" \in DOMAIN r /\ r.type = "hash" THEN r.result ELSE <<>>)

\* r is what process_request returns for the chunk, at some time.
IsResponseTo(r, chunk) ==
    \E t \in 0..MaxClock :
        LET o == process_request(chunk, t)
        IN ~o.raised /\ o.value = r

ErrorResponse == [error |-> "Unknown request type"]

\* The chunk decodes to an object whose type is none of the four kinds.
UnknownKind(chunk) ==
    /\ IsJson(chunk)
    /\ chunk[1].k \in ObjectKinds
    /\ Get(Object(chunk[1].k, chunk[1].c, chunk[1].a), "type", JStr(Lit("echo", 4)))
         \notin { JStr(Lit("echo", 4)), JStr(Lit("compute", 7)),
                  JStr(Lit("hash", 4)), JStr(Lit("slow", 4)) }

Exited(c) == pc[c] \in {"close", "check", "remove", "done"}

\* ----------------------------------------------------------------- claims

\* C1, as stated: on every connection the n-th response written is the
\* response to the n-th request its client sent.
C1_NthResponseToNthRequest ==
    \A c \in Conns : \A n \in 1..Len(outbox[c]) :
        /\ n <= Len(sentLog[c])
        /\ IsResponseTo(outbox[c][n], sentLog[c][n])

\* C1, amended: on every connection the bytes are read in the order sent,
\* a chunk is read only when the chunk before it has been answered or the
\* loop left, no response is written before its chunk was read, and the
\* n-th response written is the response to the n-th chunk read (which is
\* the n-th request whenever every request arrives in a read of its own).
C1_NthResponseToNthChunk ==
    \A c \in Conns :
        /\ Joined(Flatten(readLog[c]) \o stream[c]) = Flatten(sentLog[c])
        /\ Len(outbox[c]) <= Len(readLog[c])
        /\ Len(readLog[c]) <= Len(outbox[c]) + 1
        /\ Len(readLog[c]) = Len(outbox[c]) + 1
             => pc[c] \in {"process", "sleep", "send"} \/ Exited(c)
        /\ \A n \in 1..Len(outbox[c]) : IsResponseTo(outbox[c][n], readLog[c][n])

\* Two different requests, each read on its own, have been answered in turn.
C1_Witness ==
    \E c \in Conns :
        /\ Len(outbox[c]) = 2
        /\ readLog[c] = sentLog[c]
        /\ outbox[c][1] # outbox[c][2]

\* C2: every response written on a connection is the response to a chunk
\* read on that connection, the chunks read on it and the chunk its
\* handler holds are bytes of its own client, and no response carries a
\* byte of another connection's client.
C2_NoCrossConnection ==
    \A c \in Conns :
        /\ Tags(Flatten(readLog[c])) \subseteq {c}
        /\ Tags(data[c]) \subseteq {c}
        /\ Tags(ResponseText(response[c])) \subseteq {0, c}
        /\ \A n \in 1..Len(outbox[c]) :
             /\ \E m \in 1..Len(readLog[c]) : IsResponseTo(outbox[c][n], readLog[c][m])
             /\ Tags(ResponseText(outbox[c][n])) \subseteq {0, c}

\* A connection has got the response to its own request while the handler
\* of another one is in the middle of a hash request.
C2_Witness ==
    \E c, d \in Conns :
        /\ c # d
        /\ Len(outbox[c]) >= 1
        /\ c \in Tags(ResponseText(outbox[c][1]))
        /\ pc[d] = "process"
        /\ data[d][1].k = "hash"

\* C3: close() is called at most once and remove() at most once for a
\* connection, and once its handler has exited, on whichever path, the
\* socket is closed, each was called exactly once and the connection is
\* no longer in self.clients.
C3_ReleasedExactlyOnce ==
    \A c \in Conns :
        /\ closeCount[c] <= 1
        /\ removeCount[c] <= 1
        /\ pc[c] = "done" =>
             /\ exitReason[c] \in {"eof", "reset", "error"}
             /\ sock[c] = "closed"
             /\ closeCount[c] = 1
             /\ removeCount[c] = 1
             /\ c \notin Range(clients)

\* Two handlers have exited, one on an exception and one on a reset.
C3_Witness ==
    \E c, d \in Conns :
        /\ pc[c] = "done" /\ exitReason[c] = "error"
        /\ pc[d] = "done" /\ exitReason[d] = "reset"

\* C4, as stated: whatever text the handler passes to it, process_request
\* raises nothing and returns a response value.
C4_NeverRaises ==
    \A c \in Conns :
        pc[c] = "process" =>
            LET o == process_request(data[c], now)
            IN ~o.raised /\ o.value # NoValue

\* C5, as stated: a chunk that is no JSON document never ends the loop of
\* its handler on an error, and the response built for it is the echo of
\* the chunk's text.
C5_MalformedIsEchoed ==
    \A c \in Conns :
        (readLog[c] # <<>> /\ ~IsJson(Last(readLog[c]))) =>
            /\ exitReason[c] # "error"
            /\ pc[c] = "send" =>
                 response[c] = MalformedEcho(Last(readLog[c]), response[c].timestamp).value

\* C6: whenever start_server stands at accept and a connection waits in
\* the backlog, accept can return it, whatever the handlers are doing.
C6_AcceptNeverWaitsForHandlers ==
    (lpc = "accept" /\ backlog # <<>>) => ENABLED Accept

\* A connection waits in the backlog, start_server stands at accept, and
\* the handler of another connection is suspended in a slow delay.
C6_Witness ==
    \E c \in Conns :
        /\ pc[c] = "sleep"
        /\ now < wake[c]
        /\ lpc = "accept"
        /\ backlog # <<>>

\* C7, as stated: after accept has failed with an OS-level error the
\* listening socket is open and start_server still runs its accept loop.
C7_AcceptFailureSurvived ==
    lerr = "accept" =>
        /\ server_socket = "open"
        /\ lresult = "running"
        /\ lpc \in {"accept", "append", "start"}

\* C8: once bind or listen has failed, start_server has ended with the
\* error raised to its caller and the listening socket closed, no accept
\* was performed, no connection is registered and no handler was started.
C8_BindFailureIsFatal ==
    lerr \in {"bind", "listen"} =>
        /\ lpc = "exited"
        /\ lresult = "raised"
        /\ server_socket = "closed"
        /\ cur = 0
        /\ clients = <<>>
        /\ \A c \in Conns : sock[c] = "none" /\ pc[c] = "idle" /\ conn[c] # "accepted"

\* listen has failed.
C8_Witness == lerr = "listen" /\ lpc = "exited"

\* C9: for a request of an unknown type process_request returns
\* {error: "Unknown request type"}, without a timestamp, and raises
\* nothing; unless the peer has reset the connection, the handler writes
\* that response, leaves the socket open and goes back to recv, where a
\* further chunk on the stream can be read.
C9_UnknownTypeAnswered ==
    /\ [](\A c \in Conns :
            /\ (pc[c] = "send" /\ UnknownKind(data[c])) =>
                 /\ response[c] = ErrorResponse
                 /\ "timestamp" \notin DOMAIN response[c]
            /\ (pc[c] = "recv" /\ sock[c] = "open" /\ peer[c] # "reset"
                  /\ stream[c] # <<>>) => ENABLED RecvData(c))
    /\ [][\A c \in Conns :
            (UnknownKind(data[c]) /\ pc'[c] # pc[c]) =>
                /\ pc[c] = "process" => pc'[c] = "send"
                /\ (pc[c] = "send" /\ peer[c] # "reset") =>
                     /\ pc'[c] = "recv"
                     /\ sock'[c] = "open"
                     /\ outbox'[c] = Append(outbox[c], ErrorResponse)]_vars

\* A connection has got the error response and then the response to its
\* next request.
C9_Witness ==
    \E c \in Conns :
        /\ Len(outbox[c]) = 2
        /\ outbox[c][1] = ErrorResponse
        /\ "type" \in DOMAIN outbox[c][2]

\* C10: a read that finds the peer closed and nothing left to read ends
\* the loop with no error and changes nothing of the listener or of the
\* other connections; none of the handler's cleanup steps changes the
\* listener; when the handler is done the socket is closed and
\* deregistered; and a connection that arrives afterwards and waits in the
\* backlog can be accepted.
C10_PeerCloseEndsOnlyItsHandler ==
    /\ [](\A c \in Conns :
            /\ (pc[c] = "done" /\ exitReason[c] = "eof") =>
                 sock[c] = "closed" /\ c \notin Range(clients)
            /\ (lateConn[c] /\ lpc = "accept" /\ backlog # <<>> /\ Head(backlog) = c)
                 => ENABLED Accept)
    /\ [][\A c \in Conns :
            /\ (pc[c] = "recv" /\ peer[c] = "fin" /\ stream[c] = <<>> /\ pc'[c] # "recv") =>
                 /\ pc'[c] = "close"
                 /\ exitReason'[c] = "eof"
                 /\ UNCHANGED <<lvars, clients, outbox>>
                 /\ \A d \in Conns \ {c} : pc'[d] = pc[d] /\ sock'[d] = sock[d]
            /\ (Exited(c) /\ pc'[c] # pc[c]) => UNCHANGED lvars]_vars

\* A connection that arrived after a handler had left on end of stream has
\* been accepted and answered.
C10_Witness ==
    \E c, d \in Conns :
        /\ pc[d] = "done" /\ exitReason[d] = "eof"
        /\ lateConn[c]
        /\ Len(outbox[c]) >= 1

\* C11: after an interrupt delivered to start_server the listening socket is
\* closed and nothing is accepted any more, and no handler that was in
\* flight is cancelled: each one answers its current request and closes its
\* connection itself.
C11_InFlightHandlersComplete ==
    lresult = "interrupted" =>
        /\ server_socket = "closed"
        /\ backlog = <<>>
        /\ \A c \in Conns : conn[c] # "queued"
        /\ \A c \in Conns : pc[c] # "killed"

\* A chunk that is a part of one request longer than the read buffer.
Truncated(chunk) ==
    /\ Len(chunk) = 1
    /\ chunk[1].k \in ObjectKinds
    /\ Size(chunk[1].k) > BUFSIZE
    /\ ~IsWhole(chunk[1])

\* C12: a request longer than the 1024-byte buffer is cut by the read, and
\* each part read is answered with the echo of malformed input: the handler
\* does not fail on it and the connection is not closed.
C12_TruncatedIsEchoed ==
    \A c \in Conns :
        (readLog[c] # <<>> /\ Truncated(Last(readLog[c]))) =>
            /\ exitReason[c] # "error"
            /\ Len(outbox[c]) = Len(readLog[c]) =>
                   \E t \in 0..MaxClock :
                       Last(outbox[c]) = MalformedEcho(Last(readLog[c]), t).value

\* The Fibonacci sequence by iteration: <<fib(n), fib(n + 1)>>.
RECURSIVE FibPair(_)
FibPair(n) ==
    IF n = 0 THEN <<0, 1>>
    ELSE LET q == FibPair(n - 1) IN <<q[2], q[1] + q[2]>>

Fib(n) == FibPair(n)[1]

\* The chunk is a compute request with an integer number.
IsComputeRequest(chunk) == IsJson(chunk) /\ chunk[1].k = "compute"

\* C13: a compute request with number n, 0 <= n <= 20, is answered, and its
\* response has type compute, input n and result the n-th Fibonacci number
\* (55 for n = 10, 6765 for n = 20).
C13_ComputeIsFibonacci ==
    \A c \in Conns : \A i \in 1..Len(readLog[c]) :
        LET chunk == readLog[c][i]
            n == chunk[1].a
        IN (IsComputeRequest(chunk) /\ n \in 0..MaxN) =>
              /\ exitReason[c] # "error"
              /\ i <= Len(outbox[c]) =>
                    /\ DOMAIN outbox[c][i] = {"type", "input", "result", "timestamp"}
                    /\ outbox[c][i].type = "compute"
                    /\ outbox[c][i].input = n
                    /\ outbox[c][i].result = Fib(n)
                    /\ n = 10 => outbox[c][i].result = 55
                    /\ n = 20 => outbox[c][i].result = 6765

\* The response to a compute request with number 20 has been written.
C13_Witness ==
    \E c \in Conns :
        /\ Len(outbox[c]) = 1
        /\ IsComputeRequest(readLog[c][1])
        /\ readLog[c][1][1].a = 20
        /\ outbox[c][1].result = 6765

\* The chunk decodes to a request object.
IsRequestObject(chunk) == IsJson(chunk) /\ json_loads(chunk).isdict

\* The kind of a request object: the text of its type field, echo for a
\* request without one, and none for a type that names no handler.
RequestKind(request) ==
    IF "type" \notin DOMAIN request THEN "echo"
    ELSE IF /\ request.type.t = "str"
            /\ Len(request.type.s) = 1
            /\ request.type.s[1].k \in {"echo", "compute", "hash", "slow"}
         THEN request.type.s[1].k
         ELSE "none"

\* The handler of each kind.
HandlerOf(kind, request, t) ==
    CASE kind = "echo"    -> handle_echo(request, t)
      [] kind = "compute" -> handle_compute(request, t)
      [] kind = "hash"    -> handle_hash(request, t)
      [] kind = "slow"    -> handle_slow_operation(request, t)

\* C14: a decoded request object is routed by its type field to the handler
\* of that kind, and to handle_echo when it has no type field: calling
\* process_request comes to what that one handler comes to, and a response
\* written for the request carries the kind as its type field.
C14_RoutedByType ==
    \A c \in Conns :
        /\ (pc[c] = "process" /\ IsRequestObject(data[c])) =>
              LET request == json_loads(data[c]).fields
                  kind == RequestKind(request)
              IN kind # "none" =>
                    process_request(data[c], now) = HandlerOf(kind, request, now)
        /\ \A i \in 1..Len(outbox[c]) :
              IsRequestObject(readLog[c][i]) =>
                 LET request == json_loads(readLog[c][i]).fields
                     kind == RequestKind(request)
                 IN kind # "none" =>
                       /\ "type" \in DOMAIN outbox[c][i]
                       /\ outbox[c][i].type = kind
                       /\ \E t \in 0..MaxClock :
                             outbox[c][i] = HandlerOf(kind, request, t).value

\* A request without a type field has been answered with an echo response.
C14_Witness ==
    \E c \in Conns :
        /\ Len(outbox[c]) = 1
        /\ IsRequestObject(readLog[c][1])
        /\ "type" \notin DOMAIN json_loads(readLog[c][1]).fields
        /\ outbox[c][1].type = "echo"

\* C15: the response to an echo request has, as its response field, the
\* six characters "Echo: " followed by the text of the request's message,
\* and exactly "Echo: " when the request has no message field.
C15_EchoOfMessage ==
    \A c \in Conns : \A i \in 1..Len(readLog[c]) :
        IsRequestObject(readLog[c][i]) =>
           LET request == json_loads(readLog[c][i]).fields
           IN RequestKind(request) = "echo" =>
                 /\ exitReason[c] # "error"
                 /\ i <= Len(outbox[c]) =>
                       /\ "response" \in DOMAIN outbox[c][i]
                       /\ "message" \notin DOMAIN request =>
                             outbox[c][i].response = Lit("Echo: ", 6)
                       /\ ("message" \in DOMAIN request /\ request.message.t = "str") =>
                             /\ outbox[c][i].response = Lit("Echo: ", 6) \o request.message.s
                             /\ TextLen(outbox[c][i].response) = 6 + TextLen(request.message.s)

\* An echo request without a message field has been answered.
C15_Witness ==
    \E c \in Conns :
        /\ Len(outbox[c]) = 1
        /\ IsRequestObject(readLog[c][1])
        /\ DOMAIN json_loads(readLog[c][1]).fields = {"type"}
        /\ RequestKind(json_loads(readLog[c][1]).fields) = "echo"
        /\ outbox[c][1].response = Lit("Echo: ", 6)

\* The hex-digest hash applied k times, one after the other, starting from d.
RECURSIVE Iterate(_, _)
Iterate(d, k) == IF k = 0 THEN d ELSE hexdigest(Iterate(d, k - 1))

\* The request is a hash request with a text as data and a count k >= 0.
IsHashRequest(request) ==
    /\ RequestKind(request) = "hash"
    /\ Get(request, "data", JStr(Lit("default", 7))).t = "str"
    /\ "iterations" \in DOMAIN request
    /\ request.iterations.t = "int"
    /\ request.iterations.n >= 0

\* C16: the response to a hash request with data d and iterations k >= 0 has
\* as result the first 32 characters of the hash applied k times to d, which
\* for k = 0 is d cut to 32 characters; it carries iterations = k; and the
\* result is the same whenever and for whomever the request is processed.
C16_HashIsIteratedDigest ==
    \A c \in Conns : \A i \in 1..Len(readLog[c]) :
        IsRequestObject(readLog[c][i]) =>
           LET request == json_loads(readLog[c][i]).fields
               d == Get(request, "data", JStr(Lit("default", 7))).s
               k == request.iterations.n
           IN IsHashRequest(request) =>
                 /\ exitReason[c] # "error"
                 /\ i <= Len(outbox[c]) =>
                       /\ outbox[c][i].type = "hash"
                       /\ outbox[c][i].iterations = k
                       /\ outbox[c][i].result = Take(Iterate(d, k), DigestLen)
                       /\ TextLen(outbox[c][i].result) <= DigestLen
                       /\ k = 0 => outbox[c][i].result = Take(d, DigestLen)
                       /\ k > 0 => TextLen(outbox[c][i].result) = DigestLen
                       /\ \A t \in 0..MaxClock :
                             handle_hash(request, t).value.result = outbox[c][i].result

\* A hash request with zero iterations and a data longer than 32 characters
\* has been answered with the first 32 characters of the data.
C16_Witness ==
    \E c \in Conns :
        /\ Len(outbox[c]) = 1
        /\ IsRequestObject(readLog[c][1])
        /\ IsHashRequest(json_loads(readLog[c][1]).fields)
        /\ json_loads(readLog[c][1]).fields.iterations.n = 0
        /\ TextLen(json_loads(readLog[c][1]).fields.data.s) > DigestLen
        /\ TextLen(outbox[c][1].result) = DigestLen

\* The chunk is a slow request with a delay that time.sleep accepts.
IsSlowRequest(chunk) ==
    /\ IsRequestObject(chunk)
    /\ RequestKind(json_loads(chunk).fields) = "slow"
    /\ Get(json_loads(chunk).fields, "delay", JInt(DefaultDelay)).t = "int"
    /\ Get(json_loads(chunk).fields, "delay", JInt(DefaultDelay)).n >= 0

DelayOf(chunk) == Get(json_loads(chunk).fields, "delay", JInt(DefaultDelay)).n

\* C17: the handler of a slow request with delay d is suspended from the
\* call of process_request until d has elapsed, writes nothing meanwhile, and
\* writes the slow response only then; after the write the connection is
\* open and the handler is back at its read, which takes the next bytes
\* sent on the connection.
C17_SlowAnsweredAfterDelay ==
    /\ [][\A c \in Conns :
            /\ (pc[c] = "process" /\ pc'[c] # "process" /\ IsSlowRequest(data[c])
                  /\ DelayOf(data[c]) > 0) =>
                  /\ pc'[c] = "sleep"
                  /\ wake'[c] = now + DelayOf(data[c])
            /\ pc[c] = "sleep" =>
                  /\ outbox'[c] = outbox[c]
                  /\ wake'[c] = wake[c]
                  /\ data'[c] = data[c]
                  /\ pc'[c] # "sleep" =>
                        /\ now >= wake[c]
                        /\ pc'[c] = "send"
                        /\ response'[c].type = "slow"
                        /\ response'[c].timestamp >= wake[c]
            /\ (outbox'[c] # outbox[c] /\ IsSlowRequest(data[c])) =>
                  /\ outbox'[c] = Append(outbox[c], response[c])
                  /\ response[c].type = "slow"
                  /\ DelayOf(data[c]) > 0 =>
                        (now >= wake[c] /\ response[c].timestamp >= wake[c])
                  /\ sock'[c] = "open"
                  /\ pc'[c] = "recv"
         ]_vars
    /\ [](\A c \in Conns :
            /\ pc[c] = "sleep" => (IsSlowRequest(data[c]) /\ sock[c] = "open")
            /\ (/\ pc[c] = "recv"
                /\ outbox[c] # <<>>
                /\ "type" \in DOMAIN Last(outbox[c])
                /\ Last(outbox[c]).type = "slow"
                /\ peer[c] # "reset"
                /\ stream[c] # <<>>) => ENABLED RecvData(c))

\* A slow request with a delay was answered, and after it a second request
\* on the same connection.
C17_Witness ==
    \E c \in Conns :
        /\ Len(outbox[c]) = 2
        /\ IsSlowRequest(readLog[c][1])
        /\ DelayOf(readLog[c][1]) > 0
        /\ outbox[c][1].type = "slow"
        /\ outbox[c][1].timestamp >= DelayOf(readLog[c][1])

\* The handler holds a chunk it has read and not yet answered: it is in
\* process_request, with no delay ahead, or in a delay that ends within the
\* time the clock covers, or at its send.
Pending(c) ==
    \/ pc[c] = "process" /\ ~(IsSlowRequest(data[c]) /\ DelayOf(data[c]) > 0)
    \/ pc[c] = "sleep" /\ wake[c] <= MaxClock
    \/ pc[c] = "send"

\* Every chunk read on the connection has its response written.
Answered(c) == Len(outbox[c]) = Len(readLog[c])

\* The handler is blocked: in a read on a client that sends nothing, or in
\* the delay of a slow request.
Blocked(d) ==
    \/ pc[d] = "recv" /\ stream[d] = <<>> /\ peer[d] = "open"
    \/ pc[d] = "sleep" /\ now < wake[d]

\* C18: with the handler threads fairly scheduled, a request read on a
\* connection is answered on it in the end (unless its peer resets the
\* connection), whatever the handlers of the other connections do: one
\* blocked in a read on a silent client, or suspended in a delay, holds up
\* no one else.
C18_BlockedHandlerBlocksOnlyItself ==
    \A c \in Conns :
        /\ pc[c] = "process" ~> pc[c] # "process"
        /\ Pending(c) ~> (Answered(c) \/ peer[c] = "reset")

\* The handler of the first connection is blocked in its first read on a
\* silent client, and a request on the second connection has been answered.
C18_Witness ==
    /\ pc[1] = "recv"
    /\ readLog[1] = <<>>
    /\ Blocked(1)
    /\ outbox[2] # <<>>
    /\ Answered(2)

\* How many times the list holds x.
Count(s, x) == Cardinality({ i \in 1..Len(s) : s[i] = x })

\* C19 as stated: at every moment self.clients holds each connection at most
\* once, holds every accepted connection whose handler has not reached its
\* cleanup, holds no connection that was never accepted, and is empty once
\* every handler has exited.
C19_HoldsEveryAccepted ==
    /\ \A c \in Conns :
          /\ Count(clients, c) <= 1
          /\ c \in Range(clients) => conn[c] = "accepted"
          /\ (conn[c] = "accepted" /\ ~Exited(c)) => c \in Range(clients)
    /\ (\A c \in Conns : pc[c] \in {"idle", "done"}) => clients = <<>>

\* C19: in every interleaving of the listener's append and the handlers'
\* check-then-remove, self.clients holds each connection at most once, holds
\* every connection whose handler was started and has not removed it, and
\* the connection the listener has appended and is about to start a handler
\* for, holds no connection that was not accepted and none whose handler has
\* exited, and once every started handler has exited it is empty or holds
\* only the last accepted connection, for which no handler was started.
C19_RegistryConsistent ==
    /\ \A c \in Conns :
          /\ Count(clients, c) <= 1
          /\ c \in Range(clients) => conn[c] = "accepted"
          /\ (pc[c] \notin {"idle", "done"}) => c \in Range(clients)
          /\ (lpc = "start" /\ cur = c) => c \in Range(clients)
          /\ (lpc = "append" /\ cur = c) => c \notin Range(clients)
          /\ pc[c] = "done" => c \notin Range(clients)
    /\ (\A c \in Conns : pc[c] \in {"idle", "done"}) =>
          \/ clients = <<>>
          \/ clients = <<cur>> /\ pc[cur] = "idle" /\ lpc \in {"start", "exited"}

\* The handler of the first connection has removed its entry while the
\* second connection stood in the list behind it, and the second is left.
C19_Witness ==
    /\ pc[1] = "done"
    /\ removeCount[1] = 1
    /\ pc[2] \notin {"idle", "done"}
    /\ clients = <<2>>

\* What a step of connection c's handler leaves as it was: the listener,
\* and of every other connection its handler's position, its socket, the
\* bytes waiting to be read, the chunk in work, what was written, and its
\* entry in the registry.
OthersUntouched(c) ==
    /\ UNCHANGED lvars
    /\ \A d \in Conns \ {c} :
          /\ pc'[d] = pc[d]
          /\ exitReason'[d] = exitReason[d]
          /\ sock'[d] = sock[d]
          /\ conn'[d] = conn[d]
          /\ stream'[d] = stream[d]
          /\ data'[d] = data[d]
          /\ outbox'[d] = outbox[d]
          /\ Count(clients', d) = Count(clients, d)

\* C20: a read or a write that fails on a reset connection ends the loop of
\* that connection's handler and nothing else: the step, and each step of the
\* cleanup that follows, leaves the listener and every other connection's
\* status, pending bytes and registry entry as they were; the handler runs
\* its cleanup to the end, where its socket is closed and deregistered; and
\* the listener still accepts a waiting connection.
C20_ResetEndsOnlyItsHandler ==
    /\ [][\A c \in Conns :
            /\ (exitReason[c] = "none" /\ exitReason'[c] = "reset") =>
                  /\ pc[c] \in {"recv", "send"}
                  /\ peer[c] = "reset"
                  /\ pc'[c] = "close"
                  /\ clients' = clients
                  /\ OthersUntouched(c)
            /\ (exitReason[c] = "reset" /\ pc'[c] # pc[c]) =>
                  /\ <<pc[c], pc'[c]>> \in { <<"close", "check">>, <<"check", "remove">>,
                                             <<"check", "done">>, <<"remove", "done">> }
                  /\ exitReason'[c] = "reset"
                  /\ OthersUntouched(c)
         ]_vars
    /\ [](\A c \in Conns :
            /\ exitReason[c] = "reset" => Exited(c)
            /\ (exitReason[c] = "reset" /\ pc[c] = "done") =>
                  /\ sock[c] = "closed"
                  /\ closeCount[c] = 1
                  /\ c \notin Range(clients)
            /\ (exitReason[c] = "reset" /\ lpc = "accept" /\ backlog # <<>>) =>
                  ENABLED Accept)

\* A handler whose send failed on a reset connection is done, while the
\* other connection's handler runs on, registered, with bytes still to read.
C20_Witness ==
    \E c, d \in Conns :
        /\ c # d
        /\ exitReason[c] = "reset"
        /\ pc[c] = "done"
        /\ Len(readLog[c]) = 1
        /\ outbox[c] = <<>>
        /\ pc[d] \in {"recv", "process", "sleep", "send"}
        /\ stream[d] # <<>>
        /\ d \in Range(clients)

\* C21: the socket of a connection is open from its accept on and goes
\* through one transition only, from open to closed, made by the close of its
\* handler; closed is final: a closed socket is never open again, and in no
\* later state is anything read from it, dispatched for it or written to it.
C21_ClosedIsTerminal ==
    /\ [][\A c \in Conns :
            /\ sock'[c] # sock[c] =>
                  \/ sock[c] = "none" /\ sock'[c] = "open" /\ conn'[c] = "accepted"
                  \/ /\ sock[c] = "open" /\ sock'[c] = "closed"
                     /\ pc[c] = "close" /\ pc'[c] = "check"
            /\ sock[c] = "closed" =>
                  /\ sock'[c] = "closed"
                  /\ TextLen(stream'[c]) >= TextLen(stream[c])
                  /\ readLog'[c] = readLog[c]
                  /\ data'[c] = data[c]
                  /\ response'[c] = response[c]
                  /\ outbox'[c] = outbox[c]
                  /\ pc'[c] \in {"check", "remove", "done"}
         ]_vars
    /\ [](\A c \in Conns :
            /\ sock[c] = "closed" => pc[c] \in {"check", "remove", "done"}
            /\ pc[c] \in {"recv", "process", "sleep", "send"} => sock[c] = "open"
            /\ (sock[c] = "none") = (conn[c] # "accepted")
            /\ closeCount[c] = (IF sock[c] = "closed" THEN 1 ELSE 0))

\* A handler has closed its connection and is done, with bytes of the client
\* left unread on it.
C21_Witness ==
    \E c \in Conns :
        /\ sock[c] = "closed"
        /\ pc[c] = "done"
        /\ stream[c] # <<>>
        /\ readLog[c] # <<>>

\* Bytes are taken off connection c's stream, and a response is put on it.
ReadOn(c) == TextLen(stream'[c]) < TextLen(stream[c])
WrittenOn(c) == outbox'[c] # outbox[c]

\* C22: every connection has one handler, started once, by the listener,
\* for the connection it has just accepted; whatever is read from a
\* connection or written to it is read or written by a step of that handler,
\* standing at its own recv or send, and by no step of another handler or of
\* the listener; and no connection but an accepted one has a handler.
C22_OneHandlerPerConnection ==
    /\ [][\A c \in Conns :
            /\ (pc[c] = "idle" /\ pc'[c] # "idle") =>
                  /\ lpc = "start" /\ cur = c /\ lpc' = "accept"
                  /\ conn[c] = "accepted"
                  /\ pc'[c] = "recv"
                  /\ \A d \in Conns \ {c} : pc'[d] = pc[d]
            /\ pc[c] # "idle" => pc'[c] # "idle"
            /\ (pc[c] # "idle" /\ lvars' # lvars) => pc'[c] = pc[c]
            /\ ReadOn(c) =>
                  /\ pc[c] = "recv" /\ pc'[c] \in {"process", "close"}
                  /\ Len(readLog'[c]) = Len(readLog[c]) + 1
                  /\ Joined(readLog'[c][Len(readLog'[c])] \o stream'[c]) = Joined(stream[c])
                  /\ \A d \in Conns \ {c} : pc'[d] = pc[d] /\ readLog'[d] = readLog[d]
                  /\ UNCHANGED lvars
            /\ readLog'[c] # readLog[c] => ReadOn(c)
            /\ WrittenOn(c) =>
                  /\ pc[c] = "send" /\ pc'[c] = "recv"
                  /\ outbox'[c] = Append(outbox[c], response[c])
                  /\ \A d \in Conns \ {c} : pc'[d] = pc[d] /\ outbox'[d] = outbox[d]
                  /\ UNCHANGED lvars
         ]_vars
    /\ [](\A c \in Conns : pc[c] # "idle" => conn[c] = "accepted")

\* The handlers of two connections have each read and answered a request
\* of their own connection.
C22_Witness ==
    /\ \A c \in Conns : Len(readLog[c]) = 1 /\ Len(outbox[c]) = 1
    /\ \A c \in Conns : Tags(Flatten(readLog[c])) = {c}

\* C23: for every read that returns a non-empty chunk the handler writes
\* exactly one response, whatever the chunk holds: whenever the handler is
\* back at its read, or has left its loop (for another reason than a reset
\* of the connection), the responses written on the connection are as many
\* as the non-empty chunks read on it, however the client's requests were
\* split or run together by the reads.
C23_OneResponsePerRead ==
    \A c \in Conns :
        /\ Len(outbox[c]) <= Len(readLog[c])
        /\ ((pc[c] = "recv" \/ Exited(c)) /\ exitReason[c] # "reset") =>
              Len(outbox[c]) = Len(readLog[c])

====
